---------------------------- MODULE Spec2Model ----------------------------
(***************************************************************************)
(* FRA-Connect API (backend/server.py): the users, villages and            *)
(* forest_claims collections and the request handlers that read and write  *)
(* them.  One action per handler; a handler runs from its first line to    *)
(* its response in one step.  The response of the last handled request is  *)
(* kept in resp.  update_claim_status and get_dashboard_stats are also     *)
(* given in steps, one per store operation, for the interleaved runs.      *)
(***************************************************************************)
EXTENDS Integers, Sequences, FiniteSets, TLC

(***************************************************************************)
(* Bounds of the model.                                                    *)
(***************************************************************************)
MaxVillages == 2     \* create_village is offered while fewer villages are stored
MaxClaims == 1       \* create_forest_claim is offered while fewer claims are stored
MaxTime == 1         \* the clock runs from 0 to MaxTime

(***************************************************************************)
(* Program constants.                                                      *)
(***************************************************************************)
ACCESS_TOKEN_EXPIRE_MINUTES == 30
ListLimit == 1000            \* to_list(1000) of the list handlers
SeedVillageLimit == 10       \* to_list(10) of the seeding
SeedDate == 20240901         \* the date in the seeded claim numbers
SeedDayStep == 5             \* timedelta(days=i*5) of the seeded submitted_date
MinutesPerDay == 1440

(***************************************************************************)
(* Values.  Python's None, a key that a stored document does not have, and *)
(* the empty values that Python's truth test rejects.                      *)
(***************************************************************************)
None == "<None>"
Missing == "<missing>"
EmptyStr == ""
EmptyDict == "{}"
NoHash == <<"missing", "">>
NoId == <<"none", 0>>
NoTime == -1

Truthy(x) == x \notin {None, EmptyStr, EmptyDict}

\* A role check that lets the verifier through as well.
AdminRoles_with_verifier == {"admin", "officer", "verifier"}

AdminRoles == {"admin", "officer"}
ClaimRoles == {"admin", "officer", "verifier"}

VARIABLES users, villages, forest_claims, now, resp, update_reqs, stats_req

\* The requests that have reached the store and are not yet answered, when
\* handlers run interleaved: the update_claim_status requests and the
\* get_dashboard_stats request.
inflight == <<update_reqs, stats_req>>

vars == <<users, villages, forest_claims, now, resp, update_reqs, stats_req>>

(***************************************************************************)
(* Library calls.                                                          *)
(***************************************************************************)
\* pwd_context.hash / pwd_context.verify: a one-way tag of the password.
get_password_hash(password) == <<"bcrypt", password>>

verify_password(plain_password, hashed_password) ==
    hashed_password = get_password_hash(plain_password)

\* str(uuid.uuid4()) as a document id: fresh in its collection, which only grows.
uuid4(kind, n) == <<kind, n>>

\* str(uuid.uuid4())[:8].upper(): the first 32 bits of a random identifier.
Hex8 == {"0000AAAA", "0000BBBB"}

\* datetime.now().strftime('%Y%m%d')
strftime(t) == SeedDate + (t \div MinutesPerDay)

\* collection.find_one(filter): the first stored document that matches.
Matches(coll, P(_)) == {i \in 1..Len(coll) : P(coll[i])}

FirstIdx(coll, P(_)) ==
    CHOOSE i \in Matches(coll, P) : \A j \in Matches(coll, P) : i <= j

Take(seq, n) == IF Len(seq) <= n THEN seq ELSE SubSeq(seq, 1, n)

(***************************************************************************)
(* Tokens: create_access_token and the decoding in get_current_user.       *)
(***************************************************************************)
create_access_token(sub, expires_delta, t) ==
    [sub |-> sub, exp |-> t + expires_delta, sig |-> TRUE]

\* jwt.decode: the signature verifies and the expiry has not passed.
jwt_decode_ok(token, t) == token.sig /\ token.exp > t

ByUsername(name) == Matches(users, LAMBDA u : u.username = name)

\* get_current_user: the stored user the token names, or 401.
Authenticated(token) ==
    /\ jwt_decode_ok(token, now)
    /\ token.sub # None
    /\ ByUsername(token.sub) # {}

get_current_user(token) ==
    users[FirstIdx(users, LAMBDA u : u.username = token.sub)]

\* User(**doc).dict(): the fields of the User model; hashed_password is not one.
User(doc) ==
    [id |-> doc.id, username |-> doc.username, email |-> doc.email,
     role |-> doc.role, district |-> doc.district, is_active |-> doc.is_active]

Response(op, code, body) == [op |-> op, code |-> code, body |-> body]

(***************************************************************************)
(* Requests the clients send.                                              *)
(***************************************************************************)
AdminEmail == "admin@fra-connect.gov.in"
FarFuture == MaxTime + ACCESS_TOKEN_EXPIRE_MINUTES

Usernames == {"admin", "alice", "bob"}

Tokens ==
    {[sub |-> u, exp |-> FarFuture, sig |-> TRUE] : u \in Usernames}
      \cup {[sub |-> "admin", exp |-> 0, sig |-> TRUE],
            [sub |-> "admin", exp |-> FarFuture, sig |-> FALSE],
            [sub |-> None, exp |-> FarFuture, sig |-> TRUE]}

LeanTokens ==
    {[sub |-> u, exp |-> FarFuture, sig |-> TRUE] : u \in Usernames}
      \cup {[sub |-> "admin", exp |-> 1, sig |-> TRUE]}

UpdateTokens ==
    {[sub |-> "admin", exp |-> FarFuture, sig |-> TRUE],
     [sub |-> "bob", exp |-> FarFuture, sig |-> TRUE]}

OfficerBodies ==
    {[username |-> "alice", email |-> "alice@fra.in", password |-> "pw1",
      role |-> "officer", district |-> "Ranchi"]}

LeanRegisterBodies ==
    OfficerBodies
      \cup {[username |-> "bob", email |-> AdminEmail, password |-> "pw1",
             role |-> "viewer", district |-> "Bastar"]}

RegisterBodies ==
    LeanRegisterBodies
      \cup {[username |-> "bob", email |-> "bob@fra.in", password |-> "pw2",
             role |-> "verifier", district |-> None]}

LoginBodies ==
    {[username |-> u, password |-> p] :
        u \in {"admin", "alice"}, p \in {"admin123", "pw1"}}

(***************************************************************************)
(* Initial state: the empty store.                                         *)
(***************************************************************************)
\* The handlers that can be in progress at once.
Reqs == {"r1", "r2"}

\* No update_claim_status in progress in this slot.
IdleUpdate ==
    [pc |-> "idle", claim_id |-> NoId, t |-> NoTime,
     update_data |-> [status |-> None, notes |-> None, ai_recommendation |-> None]]

\* No get_dashboard_stats in progress.
IdleStats ==
    [pc |-> 0, total_villages |-> 0, total_claims |-> 0, pending_claims |-> 0,
     approved_claims |-> 0, disputed_claims |-> 0]

Init ==
    /\ users = <<>>
    /\ villages = <<>>
    /\ forest_claims = <<>>
    /\ now = 0
    /\ resp = Response("start", 0, None)
    /\ update_reqs = [r \in Reqs |-> IdleUpdate]
    /\ stats_req = IdleStats

\* The wall clock moves forward between requests.
Tick ==
    /\ now < MaxTime
    /\ now' = now + 1
    /\ UNCHANGED <<users, villages, forest_claims, resp>>
    /\ UNCHANGED inflight

(***************************************************************************)
(* POST /auth/register                                                     *)
(***************************************************************************)
\* The document register_user inserts: User(**user_dict).dict(), which has
\* no hashed_password key.
NewUserDoc(user_data) ==
    [id |-> uuid4("u", Len(users) + 1), username |-> user_data.username,
     email |-> user_data.email, role |-> user_data.role,
     district |-> user_data.district, hashed_password |-> NoHash,
     is_active |-> TRUE]

register_user(user_data) ==
    /\ IF Matches(users, LAMBDA u : u.username = user_data.username
                                      \/ u.email = user_data.email) # {}
       THEN /\ resp' = Response("register_user", 400, None)
            /\ UNCHANGED users
       ELSE /\ users' = Append(users, NewUserDoc(user_data))
            /\ resp' = Response("register_user", 200, User(NewUserDoc(user_data)))
    /\ UNCHANGED <<villages, forest_claims, now>>
    /\ UNCHANGED inflight

(***************************************************************************)
(* POST /auth/login                                                        *)
(***************************************************************************)
login_result(login_data) ==
    IF ByUsername(login_data.username) = {}
    THEN Response("login_user", 401, None)
    ELSE LET user == users[FirstIdx(users,
                         LAMBDA u : u.username = login_data.username)]
         IN  IF user.hashed_password = NoHash
             THEN Response("login_user", 500, None)   \* KeyError
             ELSE IF ~verify_password(login_data.password, user.hashed_password)
             THEN Response("login_user", 401, None)
             ELSE IF ~user.is_active
             THEN Response("login_user", 400, None)
             ELSE Response("login_user", 200,
                    [access_token |->
                        create_access_token(user.username,
                                            ACCESS_TOKEN_EXPIRE_MINUTES, now),
                     token_type |-> "bearer",
                     user |-> User(user)])

login_user(login_data) ==
    /\ resp' = login_result(login_data)
    /\ UNCHANGED <<users, villages, forest_claims, now>>
    /\ UNCHANGED inflight

(***************************************************************************)
(* GET /auth/me                                                            *)
(***************************************************************************)
get_current_user_info(token) ==
    /\ resp' = IF Authenticated(token)
               THEN Response("get_current_user_info", 200,
                             User(get_current_user(token)))
               ELSE Response("get_current_user_info", 401, None)
    /\ UNCHANGED <<users, villages, forest_claims, now>>
    /\ UNCHANGED inflight

(***************************************************************************)
(* GET /dashboard/stats                                                    *)
(***************************************************************************)
count_documents(coll, P(_)) == Cardinality(Matches(coll, P))

DashboardStats ==
    [total_villages |-> count_documents(villages, LAMBDA v : TRUE),
     total_claims |-> count_documents(forest_claims, LAMBDA c : TRUE),
     pending_claims |->
        count_documents(forest_claims, LAMBDA c : c.status = "pending"),
     approved_claims |->
        count_documents(forest_claims, LAMBDA c : c.status = "approved"),
     disputed_claims |->
        count_documents(forest_claims, LAMBDA c : c.status = "disputed")]

get_dashboard_stats(token) ==
    /\ resp' = IF Authenticated(token)
               THEN Response("get_dashboard_stats", 200, DashboardStats)
               ELSE Response("get_dashboard_stats", 401, None)
    /\ UNCHANGED <<users, villages, forest_claims, now>>
    /\ UNCHANGED inflight

(***************************************************************************)
(* POST /villages                                                          *)
(***************************************************************************)
LeanVillageBodies ==
    {[id |-> NoId, district |-> "Ranchi", created_at |-> NoTime]}

VillageBodies ==
    LeanVillageBodies
      \cup {[id |-> NoId, district |-> "Bastar", created_at |-> NoTime],
            [id |-> uuid4("v", 1), district |-> "Bastar", created_at |-> 0]}

\* Village(**body): the default factories fill id and created_at only when
\* the body carries none.
Village(body, t) ==
    [id |-> IF body.id = NoId THEN uuid4("v", Len(villages) + 1) ELSE body.id,
     district |-> body.district,
     created_at |-> IF body.created_at = NoTime THEN t ELSE body.created_at]

create_village(token, village_data) ==
    /\ Len(villages) < MaxVillages
    /\ IF ~Authenticated(token)
       THEN /\ resp' = Response("create_village", 401, None)
            /\ UNCHANGED villages
       ELSE IF get_current_user(token).role \notin AdminRoles
       THEN /\ resp' = Response("create_village", 403, None)
            /\ UNCHANGED villages
       ELSE /\ villages' = Append(villages, Village(village_data, now))
            /\ resp' = Response("create_village", 200, Village(village_data, now))
    /\ UNCHANGED <<users, forest_claims, now>>
    /\ UNCHANGED inflight

(***************************************************************************)
(* GET /claims                                                             *)
(***************************************************************************)
\* ForestClaim(**doc): the fields of the ForestClaim model; notes is not one.
ForestClaim(doc) ==
    [id |-> doc.id, claim_number |-> doc.claim_number,
     village_id |-> doc.village_id, status |-> doc.status,
     submitted_date |-> doc.submitted_date, last_updated |-> doc.last_updated,
     assigned_officer |-> doc.assigned_officer,
     ai_recommendation |-> doc.ai_recommendation]

\* sort("submitted_date", -1): descending, documents of equal date in stored order.
RECURSIVE SortDesc(_)
SortDesc(s) ==
    IF s = <<>> THEN <<>>
    ELSE LET x == s[Len(s)]
             rest == SortDesc(SubSeq(s, 1, Len(s) - 1))
             before == SelectSeq(rest,
                          LAMBDA c : c.submitted_date >= x.submitted_date)
             after == SelectSeq(rest,
                          LAMBDA c : c.submitted_date < x.submitted_date)
         IN  before \o <<x>> \o after

MapSeq(F(_), s) == [i \in 1..Len(s) |-> F(s[i])]

\* The village ids of the caller's district.
district_village_ids(district) ==
    LET district_villages ==
            Take(SelectSeq(villages, LAMBDA v : v.district = district), ListLimit)
    IN  {district_villages[i].id : i \in 1..Len(district_villages)}

\* The query get_forest_claims builds: the jurisdiction condition is stored
\* under the key village_id, where the village_id filter was.
ClaimQuery(status, village_id, current_user, c) ==
    /\ Truthy(status) => c.status = status
    /\ IF current_user.role # "admin" /\ Truthy(current_user.district)
       THEN c.village_id \in district_village_ids(current_user.district)
       ELSE village_id # NoId => c.village_id = village_id

claims_result(status, village_id, current_user) ==
    MapSeq(ForestClaim,
           Take(SortDesc(SelectSeq(forest_claims,
                    LAMBDA c : ClaimQuery(status, village_id, current_user, c))),
                ListLimit))

StatusFilters == {None, EmptyStr, "pending"}
VillageFilters == {NoId, uuid4("v", 1), uuid4("v", 2)}

get_forest_claims(token, status, village_id) ==
    /\ resp' = IF Authenticated(token)
               THEN Response("get_forest_claims", 200,
                       claims_result(status, village_id, get_current_user(token)))
               ELSE Response("get_forest_claims", 401, None)
    /\ UNCHANGED <<users, villages, forest_claims, now>>
    /\ UNCHANGED inflight

(***************************************************************************)
(* POST /claims                                                            *)
(***************************************************************************)
ClaimBodies == {[village_id |-> uuid4("v", 1)]}

NewClaimDoc(claim_data, current_user, hex, t) ==
    [id |-> uuid4("c", Len(forest_claims) + 1),
     claim_number |-> <<strftime(t), hex>>,
     village_id |-> claim_data.village_id,
     status |-> "pending",
     submitted_date |-> t,
     last_updated |-> t,
     assigned_officer |-> current_user.id,
     notes |-> Missing,
     ai_recommendation |-> None]

create_forest_claim(token, claim_data) ==
    /\ Len(forest_claims) < MaxClaims
    /\ IF ~Authenticated(token)
       THEN /\ resp' = Response("create_forest_claim", 401, None)
            /\ UNCHANGED forest_claims
       ELSE IF get_current_user(token).role \notin ClaimRoles
       THEN /\ resp' = Response("create_forest_claim", 403, None)
            /\ UNCHANGED forest_claims
       ELSE \E hex \in Hex8 :
              LET claim == NewClaimDoc(claim_data, get_current_user(token), hex, now)
              IN  /\ forest_claims' = Append(forest_claims, claim)
                  /\ resp' = Response("create_forest_claim", 200, ForestClaim(claim))
    /\ UNCHANGED <<users, villages, now>>
    /\ UNCHANGED inflight

(***************************************************************************)
(* GET /claims/{claim_id}                                                  *)
(***************************************************************************)
ById(claim_id) == Matches(forest_claims, LAMBDA c : c.id = claim_id)

find_claim(claim_id) ==
    forest_claims[FirstIdx(forest_claims, LAMBDA c : c.id = claim_id)]

ClaimIdInputs == {uuid4("c", k) : k \in 0..1}

get_forest_claim(token, claim_id) ==
    /\ resp' = IF ~Authenticated(token)
               THEN Response("get_forest_claim", 401, None)
               ELSE IF ById(claim_id) = {}
               THEN Response("get_forest_claim", 404, None)
               ELSE Response("get_forest_claim", 200,
                             ForestClaim(find_claim(claim_id)))
    /\ UNCHANGED <<users, villages, forest_claims, now>>
    /\ UNCHANGED inflight

(***************************************************************************)
(* PUT /claims/{claim_id}/status                                           *)
(***************************************************************************)
UpdateBodies ==
    {[status |-> s, notes |-> n, ai_recommendation |-> a] :
        s \in {"approved", "on_hold"},
        n \in {None, EmptyStr, "note A", "note B"},
        a \in {None, EmptyDict, "rec manual"}}

LeanUpdateBodies ==
    {[status |-> "on_hold", notes |-> "note A", ai_recommendation |-> None]}

\* A $set that writes notes whatever the body carries.
SetFields_notes_always(doc, update_data, t) ==
    [doc EXCEPT !.status = update_data.status,
                !.last_updated = t,
                !.notes = update_data.notes,
                !.ai_recommendation = IF Truthy(update_data.ai_recommendation)
                                      THEN update_data.ai_recommendation ELSE @]

\* A $set that leaves the status out.
SetFields_status_kept(doc, update_data, t) ==
    [doc EXCEPT !.last_updated = t,
                !.notes = IF Truthy(update_data.notes)
                          THEN update_data.notes ELSE @,
                !.ai_recommendation = IF Truthy(update_data.ai_recommendation)
                                      THEN update_data.ai_recommendation ELSE @]

\* The $set of update_claim_status applied to the stored document.
SetFields(doc, update_data, t) ==
    [doc EXCEPT !.status = update_data.status,
                !.last_updated = t,
                !.notes = IF Truthy(update_data.notes)
                          THEN update_data.notes ELSE @,
                !.ai_recommendation = IF Truthy(update_data.ai_recommendation)
                                      THEN update_data.ai_recommendation ELSE @]

\* An update that skips the lookup and writes with upsert.
update_claim_status_upsert(token, claim_id, update_data) ==
    /\ IF ~Authenticated(token)
       THEN /\ resp' = Response("update_claim_status", 401, None)
            /\ UNCHANGED forest_claims
       ELSE IF get_current_user(token).role \notin AdminRoles
       THEN /\ resp' = Response("update_claim_status", 403, None)
            /\ UNCHANGED forest_claims
       ELSE /\ forest_claims' =
                 IF ById(claim_id) = {}
                 THEN Append(forest_claims,
                        [id |-> claim_id, claim_number |-> <<0, "">>,
                         village_id |-> NoId, status |-> update_data.status,
                         submitted_date |-> now, last_updated |-> now,
                         assigned_officer |-> NoId, notes |-> Missing,
                         ai_recommendation |-> None])
                 ELSE [forest_claims EXCEPT
                         ![FirstIdx(forest_claims, LAMBDA c : c.id = claim_id)] =
                             SetFields(@, update_data, now)]
            /\ resp' = Response("update_claim_status", 200,
                                "Claim status updated successfully")
    /\ UNCHANGED <<users, villages, now>>
    /\ UNCHANGED inflight

update_claim_status(token, claim_id, update_data) ==
    /\ IF ~Authenticated(token)
       THEN /\ resp' = Response("update_claim_status", 401, None)
            /\ UNCHANGED forest_claims
       ELSE IF get_current_user(token).role \notin AdminRoles
       THEN /\ resp' = Response("update_claim_status", 403, None)
            /\ UNCHANGED forest_claims
       ELSE IF ById(claim_id) = {}
       THEN /\ resp' = Response("update_claim_status", 404, None)
            /\ UNCHANGED forest_claims
       ELSE /\ forest_claims' =
                 [forest_claims EXCEPT
                    ![FirstIdx(forest_claims, LAMBDA c : c.id = claim_id)] =
                        SetFields(@, update_data, now)]
            /\ resp' = Response("update_claim_status", 200,
                                "Claim status updated successfully")
    /\ UNCHANGED <<users, villages, now>>
    /\ UNCHANGED inflight

(***************************************************************************)
(* POST /init-sample-data                                                  *)
(***************************************************************************)
SeedAdmin ==
    [id |-> uuid4("u", Len(users) + 1), username |-> "admin",
     email |-> AdminEmail, role |-> "admin", district |-> "All",
     hashed_password |-> get_password_hash("admin123"), is_active |-> TRUE]

sample_villages(t) ==
    <<[id |-> uuid4("v", 1), district |-> "Ranchi", created_at |-> t],
      [id |-> uuid4("v", 2), district |-> "Mayurbhanj", created_at |-> t],
      [id |-> uuid4("v", 3), district |-> "Bastar", created_at |-> t]>>

SeedStatus == <<"pending", "under_review", "approved">>

\* The claim the seeding builds for villages[i] (i counted from 0).
sample_claim(i, village, hex, t) ==
    [id |-> uuid4("c", i + 1),
     claim_number |-> <<SeedDate, hex>>,
     village_id |-> village.id,
     status |-> SeedStatus[(i % 3) + 1],
     submitted_date |-> t - i * SeedDayStep * MinutesPerDay,
     last_updated |-> t,
     assigned_officer |-> NoId,
     notes |-> Missing,
     ai_recommendation |-> IF i % 2 = 0 THEN "rec approve" ELSE "rec review"]

seeded_users == IF ByUsername("admin") = {} THEN Append(users, SeedAdmin) ELSE users

\* A seeding that inserts the sample villages without counting first.
seeded_villages_always == villages \o sample_villages(now)

seeded_villages == IF Len(villages) = 0 THEN sample_villages(now) ELSE villages

seeded_claims(hexes) ==
    IF Len(forest_claims) = 0
    THEN LET found == Take(seeded_villages, SeedVillageLimit)
         IN  [i \in 1..Len(found) |-> sample_claim(i - 1, found[i], hexes[i], now)]
    ELSE forest_claims

initialize_sample_data ==
    /\ \E hexes \in [1..(IF Len(forest_claims) = 0
                         THEN Len(Take(seeded_villages, SeedVillageLimit))
                         ELSE 0) -> Hex8] :
          forest_claims' = seeded_claims(hexes)
    /\ users' = seeded_users
    /\ villages' = seeded_villages
    /\ resp' = Response("initialize_sample_data", 200,
                        "Sample data initialized successfully")
    /\ UNCHANGED now
    /\ UNCHANGED inflight

(***************************************************************************)
(* Spec: every handler, with requests from small sets, and the clock.      *)
(***************************************************************************)
Next ==
    \/ Tick
    \/ \E user_data \in LeanRegisterBodies : register_user(user_data)
    \/ \E login_data \in LoginBodies : login_user(login_data)
    \/ \E token \in LeanTokens : get_current_user_info(token)
    \/ \E token \in LeanTokens : get_dashboard_stats(token)
    \/ \E token \in LeanTokens, village_data \in VillageBodies :
          create_village(token, village_data)
    \/ \E token \in LeanTokens, status \in StatusFilters, village_id \in VillageFilters :
          get_forest_claims(token, status, village_id)
    \/ \E token \in LeanTokens, claim_data \in ClaimBodies :
          create_forest_claim(token, claim_data)
    \/ \E token \in LeanTokens, claim_id \in ClaimIdInputs :
          get_forest_claim(token, claim_id)
    \/ \E token \in LeanTokens, claim_id \in ClaimIdInputs, update_data \in LeanUpdateBodies :
          update_claim_status(token, claim_id, update_data)
    \/ initialize_sample_data

Spec == Init /\ [][Next]_vars

(***************************************************************************)
(* SpecAccess: the writing handlers called by users of every role, at one  *)
(* instant.                                                                *)
(***************************************************************************)
NextAccess ==
    \/ \E user_data \in RegisterBodies : register_user(user_data)
    \/ \E token \in Tokens : get_dashboard_stats(token)
    \/ \E token \in Tokens, village_data \in LeanVillageBodies :
          create_village(token, village_data)
    \/ \E token \in Tokens, claim_data \in ClaimBodies :
          create_forest_claim(token, claim_data)
    \/ \E token \in Tokens, claim_id \in ClaimIdInputs :
          get_forest_claim(token, claim_id)
    \/ \E token \in Tokens, claim_id \in ClaimIdInputs, update_data \in LeanUpdateBodies :
          update_claim_status(token, claim_id, update_data)
    \/ initialize_sample_data

SpecAccess == Init /\ [][NextAccess]_vars

(***************************************************************************)
(* SpecUpdates: status updates with every kind of body on the seeded       *)
(* claims, as the clock moves.                                             *)
(***************************************************************************)
NextUpdates ==
    \/ Tick
    \/ \E token \in UpdateTokens, claim_id \in ClaimIdInputs :
          get_forest_claim(token, claim_id)
    \/ \E token \in UpdateTokens, claim_id \in ClaimIdInputs, update_data \in UpdateBodies :
          update_claim_status(token, claim_id, update_data)
    \/ initialize_sample_data

SpecUpdates == Init /\ [][NextUpdates]_vars

(***************************************************************************)
(* Interleaved handlers.  A handler gives way at each await of a store     *)
(* operation, so other requests run between its store operations.          *)
(*                                                                         *)
(* PUT /claims/{claim_id}/status in steps: the lookup (find_one), the      *)
(* reading of the clock into update_dict, and the write (update_one) as it *)
(* reaches the store.                                                      *)
(***************************************************************************)
ConcurrentUpdateBodies ==
    {[status |-> s, notes |-> None, ai_recommendation |-> None] :
        s \in {"approved", "disputed"}}

\* Dependency get_current_user, the role check and find_one({"id": claim_id}).
update_begin(r, token, claim_id, update_data) ==
    /\ update_reqs[r].pc = "idle"
    /\ IF ~Authenticated(token)
       THEN /\ resp' = Response("update_claim_status", 401, None)
            /\ UNCHANGED update_reqs
       ELSE IF get_current_user(token).role \notin AdminRoles
       THEN /\ resp' = Response("update_claim_status", 403, None)
            /\ UNCHANGED update_reqs
       ELSE IF ById(claim_id) = {}
       THEN /\ resp' = Response("update_claim_status", 404, None)
            /\ UNCHANGED update_reqs
       ELSE /\ update_reqs' = [update_reqs EXCEPT ![r] =
                 [pc |-> "found", claim_id |-> claim_id, t |-> NoTime,
                  update_data |-> update_data]]
            /\ UNCHANGED resp
    /\ UNCHANGED <<users, villages, forest_claims, now, stats_req>>

\* update_dict = {"status": ..., "last_updated": datetime.now(timezone.utc)}
update_read_clock(r) ==
    /\ update_reqs[r].pc = "found"
    /\ update_reqs' = [update_reqs EXCEPT ![r].pc = "clocked", ![r].t = now]
    /\ UNCHANGED <<users, villages, forest_claims, now, resp, stats_req>>

\* update_one({"id": claim_id}, {"$set": update_dict}) and the response.
update_write(r) ==
    /\ update_reqs[r].pc = "clocked"
    /\ forest_claims' =
          IF ById(update_reqs[r].claim_id) = {} THEN forest_claims
          ELSE [forest_claims EXCEPT
                  ![FirstIdx(forest_claims,
                             LAMBDA c : c.id = update_reqs[r].claim_id)] =
                      SetFields(@, update_reqs[r].update_data, update_reqs[r].t)]
    /\ resp' = Response("update_claim_status", 200,
                        "Claim status updated successfully")
    /\ update_reqs' = [update_reqs EXCEPT ![r] = IdleUpdate]
    /\ UNCHANGED <<users, villages, now, stats_req>>

(***************************************************************************)
(* GET /dashboard/stats in steps: the five count_documents queries, one    *)
(* after the other, and the response built from their results.             *)
(***************************************************************************)
stats_begin(token) ==
    /\ stats_req.pc = 0
    /\ IF Authenticated(token)
       THEN /\ stats_req' = [IdleStats EXCEPT !.pc = 1]
            /\ UNCHANGED resp
       ELSE /\ resp' = Response("get_dashboard_stats", 401, None)
            /\ UNCHANGED stats_req
    /\ UNCHANGED <<users, villages, forest_claims, now, update_reqs>>

\* The count query number stats_req.pc, on the store as it is now.
stats_count ==
    /\ stats_req.pc \in 1..5
    /\ stats_req' =
          [stats_req EXCEPT
             !.pc = @ + 1,
             !.total_villages =
                IF stats_req.pc = 1 THEN DashboardStats.total_villages ELSE @,
             !.total_claims =
                IF stats_req.pc = 2 THEN DashboardStats.total_claims ELSE @,
             !.pending_claims =
                IF stats_req.pc = 3 THEN DashboardStats.pending_claims ELSE @,
             !.approved_claims =
                IF stats_req.pc = 4 THEN DashboardStats.approved_claims ELSE @,
             !.disputed_claims =
                IF stats_req.pc = 5 THEN DashboardStats.disputed_claims ELSE @]
    /\ UNCHANGED <<users, villages, forest_claims, now, resp, update_reqs>>

\* return DashboardStats(...)
stats_respond ==
    /\ stats_req.pc = 6
    /\ resp' = Response("get_dashboard_stats", 200,
                  [total_villages |-> stats_req.total_villages,
                   total_claims |-> stats_req.total_claims,
                   pending_claims |-> stats_req.pending_claims,
                   approved_claims |-> stats_req.approved_claims,
                   disputed_claims |-> stats_req.disputed_claims])
    /\ stats_req' = IdleStats
    /\ UNCHANGED <<users, villages, forest_claims, now, update_reqs>>

(***************************************************************************)
(* SpecRace: status updates in steps, two at a time, on the seeded claims, *)
(* as the clock moves.                                                     *)
(***************************************************************************)
NextRace ==
    \/ Tick
    \/ initialize_sample_data
    \/ \E r \in Reqs, token \in UpdateTokens, claim_id \in ClaimIdInputs,
          update_data \in ConcurrentUpdateBodies :
          update_begin(r, token, claim_id, update_data)
    \/ \E r \in Reqs : update_read_clock(r)
    \/ \E r \in Reqs : update_write(r)

SpecRace == Init /\ [][NextRace]_vars

(***************************************************************************)
(* SpecDashboard: a dashboard request in steps, with registration, the     *)
(* seeding, claim creation and a status update in steps between its count  *)
(* queries, at one instant.                                                *)
(***************************************************************************)
DashboardTokens ==
    {[sub |-> u, exp |-> FarFuture, sig |-> TRUE] : u \in {"admin", "alice"}}

NextDashboard ==
    \/ \E user_data \in OfficerBodies : register_user(user_data)
    \/ initialize_sample_data
    \/ \E token \in DashboardTokens, claim_data \in ClaimBodies :
          create_forest_claim(token, claim_data)
    \/ \E token \in DashboardTokens, claim_id \in ClaimIdInputs,
          update_data \in ConcurrentUpdateBodies :
          update_begin("r1", token, claim_id, update_data)
    \/ update_read_clock("r1")
    \/ update_write("r1")
    \/ \E token \in DashboardTokens : stats_begin(token)
    \/ stats_count
    \/ stats_respond

SpecDashboard == Init /\ [][NextDashboard]_vars

(***************************************************************************)
(* Properties.                                                             *)
(***************************************************************************)
\* The stored user a token names (usernames of registered users are distinct).
Caller(token) == get_current_user(token)

\* No stored claim has this id.
NoSuchClaim(claim_id) ==
    \A i \in 1..Len(forest_claims) : forest_claims[i].id # claim_id

\* The step answers an update_claim_status with 200.
UpdateAnswered == resp'.op = "update_claim_status" /\ resp'.code = 200

\* The step is this update_claim_status request, answered 200.
Updated(token, claim_id, update_data) ==
    /\ Authenticated(token)
    /\ ~NoSuchClaim(claim_id)
    /\ update_claim_status(token, claim_id, update_data)

\* C1: with a valid token, create_village succeeds exactly for the roles admin
\* and officer and create_forest_claim exactly for admin, officer and verifier,
\* and update_claim_status succeeds only for admin and officer; any other role
\* is answered 403, a token that is forged, expired or names no stored user is
\* answered 401, and a refused request leaves villages and forest_claims as
\* they were.
C1_RoleGating ==
    [][/\ resp'.op = "create_village" =>
            \A token \in Tokens, village_data \in LeanVillageBodies :
               create_village(token, village_data) =>
                 /\ resp'.code = 200 <=>
                      (/\ Authenticated(token)
                       /\ Caller(token).role \in {"admin", "officer"})
                 /\ (Authenticated(token)
                       /\ Caller(token).role \notin {"admin", "officer"}) =>
                      resp'.code = 403
                 /\ ~Authenticated(token) => resp'.code = 401
                 /\ resp'.code # 200 => UNCHANGED <<villages, forest_claims>>
       /\ resp'.op = "create_forest_claim" =>
            \A token \in Tokens, claim_data \in ClaimBodies :
               create_forest_claim(token, claim_data) =>
                 /\ resp'.code = 200 <=>
                      (/\ Authenticated(token)
                       /\ Caller(token).role \in {"admin", "officer", "verifier"})
                 /\ (Authenticated(token)
                       /\ Caller(token).role \notin {"admin", "officer", "verifier"}) =>
                      resp'.code = 403
                 /\ ~Authenticated(token) => resp'.code = 401
                 /\ resp'.code # 200 => UNCHANGED <<villages, forest_claims>>
       /\ resp'.op = "update_claim_status" =>
            \A token \in Tokens, claim_id \in ClaimIdInputs,
               update_data \in LeanUpdateBodies :
               update_claim_status(token, claim_id, update_data) =>
                 /\ resp'.code = 200 =>
                      (/\ Authenticated(token)
                       /\ Caller(token).role \in {"admin", "officer"})
                 /\ (Authenticated(token)
                       /\ Caller(token).role \notin {"admin", "officer"}) =>
                      resp'.code = 403
                 /\ ~Authenticated(token) => resp'.code = 401
                 /\ resp'.code # 200 => UNCHANGED <<villages, forest_claims>>
      ]_vars

\* C1 witness: a verifier is stored, a claim it could create is stored, and a
\* write has just been refused with 403.
C1_Witness ==
    /\ resp.op \in {"create_village", "update_claim_status"}
    /\ resp.code = 403
    /\ \E i \in 1..Len(users) : users[i].role = "verifier"
    /\ Len(forest_claims) > 0

\* C2 (as claimed): for every stored non-admin user with a district and every
\* filter combination, get_forest_claims returns no claim whose village_id is the
\* id of a village of another district; for an admin it returns every stored
\* claim that matches the filters.
C2_JurisdictionScoping ==
    \A i \in 1..Len(users), status \in StatusFilters, village_id \in VillageFilters :
      LET user == User(users[i])
          result == claims_result(status, village_id, user)
      IN  /\ (user.role # "admin" /\ user.district \notin {None, EmptyStr}) =>
                \A k \in 1..Len(result), v \in 1..Len(villages) :
                   villages[v].id = result[k].village_id =>
                      villages[v].district = user.district
          /\ user.role = "admin" =>
                {result[k].id : k \in 1..Len(result)} =
                   {forest_claims[k].id : k \in
                      {n \in 1..Len(forest_claims) :
                         /\ status \notin {None, EmptyStr} =>
                               forest_claims[n].status = status
                         /\ village_id # NoId =>
                               forest_claims[n].village_id = village_id}}

\* C3 (as claimed): a user stored by register_user logs in with the registered
\* password and gets a bearer token and the user record without the hash; a
\* wrong password or an unknown username is answered 401.
C3_RegisterThenLogin ==
    /\ \A b \in LeanRegisterBodies :
         (\E i \in 1..Len(users) :
             users[i].username = b.username /\ users[i].email = b.email) =>
           LET ok == login_result([username |-> b.username,
                                   password |-> b.password])
               bad == login_result([username |-> b.username,
                                    password |-> "wrong"])
           IN  /\ ok.code = 200
               /\ ok.body.token_type = "bearer"
               /\ ok.body.user.username = b.username
               /\ bad.code = 401
    /\ \A name \in Usernames :
         ByUsername(name) = {} =>
           login_result([username |-> name, password |-> "pw1"]).code = 401

\* C4 (as claimed): no two stored users share a username and no two share an
\* email.
C4_UserUniqueness ==
    \A i, j \in 1..Len(users) :
       i # j => /\ users[i].username # users[j].username
                /\ users[i].email # users[j].email

\* C5 (as claimed): no two stored claims have the same claim_number, and no step
\* changes the claim_number of a stored claim.
C5_ClaimNumberUnique ==
    [][/\ \A i, j \in 1..Len(forest_claims') :
            i # j => forest_claims'[i].claim_number # forest_claims'[j].claim_number
       /\ \A i \in 1..Len(forest_claims) :
            /\ i <= Len(forest_claims')
            /\ forest_claims'[i].claim_number = forest_claims[i].claim_number
      ]_vars

\* C6 (as claimed): a successful update_claim_status writes the requested
\* status and the current time, replaces notes and ai_recommendation exactly
\* when the body supplies them (an empty value included), and changes nothing
\* else in the store.
C6_FrameAnySupplied ==
    [][UpdateAnswered =>
       \A token \in UpdateTokens, claim_id \in ClaimIdInputs,
          update_data \in UpdateBodies :
         Updated(token, claim_id, update_data) =>
           LET i == FirstIdx(forest_claims, LAMBDA c : c.id = claim_id)
           IN  /\ Len(forest_claims') = Len(forest_claims)
               /\ forest_claims'[i] =
                    [forest_claims[i] EXCEPT
                       !.status = update_data.status,
                       !.last_updated = now,
                       !.notes = IF update_data.notes # None
                                 THEN update_data.notes ELSE @,
                       !.ai_recommendation =
                          IF update_data.ai_recommendation # None
                          THEN update_data.ai_recommendation ELSE @]
               /\ \A j \in 1..Len(forest_claims) :
                    j # i => forest_claims'[j] = forest_claims[j]
               /\ UNCHANGED <<users, villages>>
      ]_vars

\* C6 (amended): a successful update_claim_status writes the requested status
\* and the current time, replaces notes exactly when the body supplies a
\* non-empty notes and ai_recommendation exactly when it supplies a non-empty
\* ai_recommendation, leaves them as they were when they are absent or empty,
\* and changes nothing else in the store.
C6_FrameNonEmpty ==
    [][UpdateAnswered =>
       \A token \in UpdateTokens, claim_id \in ClaimIdInputs,
          update_data \in UpdateBodies :
         Updated(token, claim_id, update_data) =>
           LET i == FirstIdx(forest_claims, LAMBDA c : c.id = claim_id)
           IN  /\ Len(forest_claims') = Len(forest_claims)
               /\ forest_claims'[i] =
                    [forest_claims[i] EXCEPT
                       !.status = update_data.status,
                       !.last_updated = now,
                       !.notes = IF update_data.notes \notin {None, EmptyStr}
                                 THEN update_data.notes ELSE @,
                       !.ai_recommendation =
                          IF update_data.ai_recommendation \notin {None, EmptyDict}
                          THEN update_data.ai_recommendation ELSE @]
               /\ \A j \in 1..Len(forest_claims) :
                    j # i => forest_claims'[j] = forest_claims[j]
               /\ UNCHANGED <<users, villages>>
      ]_vars

\* C6 witness: the first seeded claim after updates that replaced its notes
\* and its recommendation, beside an untouched second claim.
C6_Witness ==
    /\ resp.op = "update_claim_status"
    /\ resp.code = 200
    /\ Len(forest_claims) = 3
    /\ forest_claims[1].notes = "note B"
    /\ forest_claims[1].ai_recommendation = "rec manual"
    /\ forest_claims[1].last_updated > forest_claims[2].last_updated

\* C7: with a valid token, get_forest_claim with an id no stored claim has is
\* answered 404, and so is update_claim_status by an admin or officer, which
\* then leaves forest_claims as it was.
C7_MissingClaim ==
    [][/\ resp'.op = "get_forest_claim" =>
            \A token \in Tokens, claim_id \in ClaimIdInputs :
               (/\ Authenticated(token)
                /\ NoSuchClaim(claim_id)
                /\ get_forest_claim(token, claim_id)) => resp'.code = 404
       /\ resp'.op = "update_claim_status" =>
            \A token \in Tokens, claim_id \in ClaimIdInputs,
               update_data \in LeanUpdateBodies :
               (/\ Authenticated(token)
                /\ Caller(token).role \in {"admin", "officer"}
                /\ NoSuchClaim(claim_id)
                /\ update_claim_status(token, claim_id, update_data)) =>
                  /\ resp'.code = 404
                  /\ forest_claims' = forest_claims
      ]_vars

\* C7 witness: an update by an officer or admin was answered 404 while claims
\* are stored.
C7_Witness ==
    /\ resp.op = "update_claim_status"
    /\ resp.code = 404
    /\ Len(forest_claims) > 0

\* C8: a successful update_claim_status(c, s) leaves c.status = s, so that
\* get_forest_claim then returns s, and c.last_updated not earlier than it was;
\* in particular after each of two consecutive calls with the same s.
C8_OverwriteIdempotent ==
    [][UpdateAnswered =>
       \A token \in UpdateTokens, claim_id \in ClaimIdInputs,
          update_data \in UpdateBodies :
         Updated(token, claim_id, update_data) =>
           LET i == FirstIdx(forest_claims, LAMBDA c : c.id = claim_id)
           IN  /\ forest_claims'[i].status = update_data.status
               /\ forest_claims'[i].last_updated >= forest_claims[i].last_updated
               /\ ForestClaim(find_claim(claim_id))'.status = update_data.status
      ]_vars

\* C8 witness: get_forest_claim returns the status of an update made after
\* the clock moved.
C8_Witness ==
    /\ resp.op = "get_forest_claim"
    /\ resp.code = 200
    /\ resp.body.status = "on_hold"
    /\ resp.body.last_updated > resp.body.submitted_date

\* What every run of initialize_sample_data leaves behind.
SeedingDone ==
    /\ ByUsername("admin") # {}
    /\ Len(villages) > 0
    /\ Len(forest_claims) > 0

\* C9: initialize_sample_data on the empty store leaves one user, named admin,
\* 3 villages and 3 claims, which the dashboard then counts; what a run leaves
\* behind stays, and a run that finds it changes no collection.
C9_SeedingIdempotent ==
    [][/\ (resp'.op = "initialize_sample_data" /\ initialize_sample_data) =>
            /\ SeedingDone'
            /\ (Len(users) = 0 /\ Len(villages) = 0 /\ Len(forest_claims) = 0) =>
                  /\ Len(users') = 1
                  /\ users'[1].username = "admin"
                  /\ Len(villages') = 3
                  /\ Len(forest_claims') = 3
                  /\ DashboardStats'.total_villages = 3
                  /\ DashboardStats'.total_claims = 3
            /\ SeedingDone => UNCHANGED <<users, villages, forest_claims>>
       /\ SeedingDone => SeedingDone'
      ]_vars

\* C9 witness: the dashboard of the store seeded from empty.
C9_Witness ==
    /\ resp.op = "get_dashboard_stats"
    /\ resp.code = 200
    /\ resp.body.total_villages = 3
    /\ resp.body.total_claims = 3
    /\ Len(users) = 1

\* C10 (as claimed): create_village stores the village under an id no stored
\* village has and under the current time, whatever the body carries.
C10_FreshVillageId ==
    [][(resp'.op = "create_village" /\ resp'.code = 200) =>
       \A token \in LeanTokens, village_data \in VillageBodies :
         create_village(token, village_data) =>
           LET new == villages'[Len(villages')]
           IN  /\ new.created_at = now
               /\ \A i \in 1..Len(villages) : villages[i].id # new.id
      ]_vars

\* C11 (as claimed): for every stored user and every filter combination,
\* get_forest_claims returns exactly the stored claims that have the supplied
\* status, have the supplied village_id and, for a non-admin with a district,
\* belong to a village of that district; so a supplied village_id filter never
\* returns a claim of another village.
C11_FiltersCompose ==
    \A i \in 1..Len(users), status \in StatusFilters, village_id \in VillageFilters :
      LET user == User(users[i])
          result == claims_result(status, village_id, user)
          scoped == user.role # "admin" /\ user.district \notin {None, EmptyStr}
          expected ==
             {n \in 1..Len(forest_claims) :
                /\ status \notin {None, EmptyStr} =>
                      forest_claims[n].status = status
                /\ village_id # NoId => forest_claims[n].village_id = village_id
                /\ scoped =>
                      \E v \in 1..Len(villages) :
                         /\ villages[v].id = forest_claims[n].village_id
                         /\ villages[v].district = user.district}
      IN  /\ {result[k].id : k \in 1..Len(result)} =
                {forest_claims[n].id : n \in expected}
          /\ village_id # NoId =>
                \A k \in 1..Len(result) : result[k].village_id = village_id

\* The status values the ForestClaim model names.
StatusDomain == {"pending", "under_review", "approved", "rejected", "disputed"}

\* C12 (as claimed): in every reachable state every stored claim's status is
\* one of pending, under_review, approved, rejected, disputed, and the claim a
\* create_forest_claim answers with has status pending.
C12_StatusDomain ==
    /\ \A n \in 1..Len(forest_claims) : forest_claims[n].status \in StatusDomain
    /\ (resp.op = "create_forest_claim" /\ resp.code = 200) =>
          resp.body.status = "pending"

\* C13 (as claimed): when update_claim_status requests on the same claim run
\* interleaved (each looks the claim up, reads the clock, then issues one write
\* of status and last_updated together), no step makes a stored claim's
\* last_updated earlier than it was, and every step that changes a claim's
\* status or last_updated stores the status and the clock reading of one and
\* the same request.
C13_TimestampMonotonic ==
    [][\A n \in 1..Len(forest_claims) :
         /\ forest_claims'[n].last_updated >= forest_claims[n].last_updated
         /\ (\/ forest_claims'[n].status # forest_claims[n].status
             \/ forest_claims'[n].last_updated # forest_claims[n].last_updated) =>
               \E r \in Reqs :
                  /\ update_reqs[r].pc = "clocked"
                  /\ update_reqs[r].claim_id = forest_claims[n].id
                  /\ forest_claims'[n].status = update_reqs[r].update_data.status
                  /\ forest_claims'[n].last_updated = update_reqs[r].t
      ]_vars

\* C14 (as claimed): every response of get_dashboard_stats, also one whose
\* five count queries ran with create_forest_claim and update_claim_status
\* requests between them, has
\* pending_claims + approved_claims + disputed_claims <= total_claims.
C14_DashboardSnapshot ==
    (resp.op = "get_dashboard_stats" /\ resp.code = 200) =>
        resp.body.pending_claims + resp.body.approved_claims
           + resp.body.disputed_claims <= resp.body.total_claims

=============================================================================
